---- MODULE Spec2Model ----
(***************************************************************************)
(* Account state machine of the auth-app backend: the Express route        *)
(* handlers of routes/auth.ts and routes/user.ts and the Google OAuth      *)
(* verify callback of auth/passport.ts, over the User table of the         *)
(* Prisma/PostgreSQL store and the Cloudinary image store.                 *)
(*                                                                         *)
(* Every handler is cut at its awaits on the store: the first action of a  *)
(* handler takes the request, validates it and performs the first read;    *)
(* each later action is one further awaited call (image delete, image      *)
(* upload, row create, row update).  Requests of different clients         *)
(* interleave at these points, as they do on the Node event loop.          *)
(* last holds the response sent by the latest step and is empty after a    *)
(* step that sent none.                                                    *)
(*                                                                         *)
(* Strings are tuples of one-character strings, so that toLowerCase, the   *)
(* e-mail regular expression and .length are computed, not assumed.        *)
(* A nullable column or an optional request field is <<>> (null/absent)    *)
(* or <<v>>.                                                               *)
(***************************************************************************)
EXTENDS Integers, Sequences, FiniteSets

VARIABLES
    users,      \* the User table: users[id] is the row with primary key id
    images,     \* references of the images the image store currently holds
    nextImage,  \* number of the next reference the image store hands out
    inflight,   \* requests past their first read, waiting on an awaited call
    last,       \* the response sent by the latest step, with its request
    nreq        \* number of requests received so far

vars == <<users, images, nextImage, inflight, last, nreq>>

\* ------------------------------------------------------------------ bounds
MaxRequests == 3

\* The clients that may each have one request outstanding: requests of
\* different clients run concurrently.
Clients == {1, 2}

\* ------------------------------------------------------------- JS values
NULL == <<>>
Some(v) == <<v>>
Val(o) == o[1]

\* JavaScript truthiness of a request field: absent and "" are falsy for a
\* string field; absent and 0 are falsy for a numeric field.
TruthyStr(s) == s # <<>>
TruthyNum(n) == n # <<>> /\ Val(n) # 0

LowerChar(c) ==
    CASE c = "A" -> "a"
      [] c = "M" -> "m"
      [] c = "O" -> "o"
      [] OTHER -> c

toLowerCase(s) == [i \in DOMAIN s |-> LowerChar(s[i])]

\* ----------------------------------------------------------- input values
E1 == <<"a", "@", "b", ".", "c">>
E1U == <<"A", "@", "b", ".", "c">>
BadEmail == <<"a", "b", ".", "c">>
Ann == <<"A", "n", "n">>
Bob == <<"B", "o", "b">>
ShortPw == <<"p", "w", "1">>
P1 == <<"M", "y", "p", "a", "s", "s">>
P2 == <<"h", "u", "n", "t", "e", "r">>
Male == <<"M", "a", "l", "e">>
Robot == <<"r", "o", "b", "o", "t">>
G1 == <<"g", "1">>
GPhoto == <<"google-photo", 0>>

\* ------------------------------------------------------ helpers of auth.ts
generateToken(userId) == [userId |-> userId]

\* /^[^\s@]+@[^\s@]+\.[^\s@]+$/
NoSpaceAt(s, lo, hi) == \A k \in lo..hi : s[k] # "@" /\ s[k] # " "
isValidEmail(email) ==
    \E i \in 1..Len(email) : \E j \in 1..Len(email) :
        /\ email[i] = "@"
        /\ email[j] = "."
        /\ 1 < i /\ i + 1 < j /\ j < Len(email)
        /\ NoSpaceAt(email, 1, i - 1)
        /\ NoSpaceAt(email, i + 1, j - 1)
        /\ NoSpaceAt(email, j + 1, Len(email))

MinAge == 13
MaxAge == 120
isValidAgeMut(age) == age >= MinAge
isValidAge(age) == age >= MinAge /\ age <= MaxAge

Genders ==
    { <<"m", "a", "l", "e">>,
      <<"f", "e", "m", "a", "l", "e">>,
      <<"o", "t", "h", "e", "r">>,
      <<"p", "r", "e", "f", "e", "r", "-", "n", "o", "t", "-", "t", "o", "-", "s", "a", "y">> }
isValidGenderMut(gender) == TRUE
isValidGender(gender) == toLowerCase(gender) \in Genders

MinPasswordLength == 6

\* bcrypt.hash / bcrypt.compare: a hash is not the secret, and compares
\* equal exactly to the secret it was made from.
bcryptHash(password) == [alg |-> "bcrypt", of |-> password]
bcryptCompareMut(password, hash) == hash.of = toLowerCase(password)
bcryptCompare(password, hash) == hash.of = password

\* --------------------------------------------------------- the User table
Ids == DOMAIN users

\* prisma.user.findUnique({ where: { email } }): exact match on the column.
FindByEmail(email) ==
    IF \E id \in Ids : users[id].email = email
    THEN Some(CHOOSE id \in Ids : users[id].email = email)
    ELSE NULL

\* The unique indexes User_email_key and User_googleId_key (NULLs are distinct).
EmailTaken(email) == \E id \in Ids : users[id].email = email
GoogleIdTakenMut(googleId, except) == FALSE
GoogleIdTaken(googleId, except) ==
    /\ googleId # NULL
    /\ \E id \in Ids \ except : users[id].googleId = googleId

\* ---------------------------------------------------------------- responses
NoResponse == [op |-> "none"]

Response(op, req, status, error, token, user) ==
    [op |-> op, req |-> req, status |-> status,
     error |-> error, token |-> token, user |-> user]

\* The error kinds of the specification, by handler message.
ErrorKind(r) ==
    CASE r.status < 400 -> "None"
      [] r.error = "User with this email already exists" -> "DuplicateEmail"
      [] r.error = "No profile picture to delete" -> "NothingToDelete"
      [] r.error = "Current password is incorrect" -> "InvalidCredentials"
      [] r.error = "Failed to upload image" -> "UpstreamFailure"
      [] r.op = "login" /\ r.status = 401 -> "InvalidCredentials"
      [] r.status = 401 -> "Unauthorized"
      [] r.status = 404 -> "NotFound"
      [] r.status = 400 -> "ValidationError"
      [] OTHER -> "InternalError"

\* select: { id, name, email, age, gender, profilePicture, provider, ... }
PublicUser(id, u) ==
    [id |-> id, name |-> u.name, email |-> u.email, age |-> u.age,
     gender |-> u.gender, profilePicture |-> u.profilePicture,
     provider |-> u.provider]

FreeClients == Clients \ {f.client : f \in inflight}
CanSuspend == FreeClients # {}
\* A request comes from a client that has none outstanding.
CanReceive == nreq < MaxRequests /\ CanSuspend
NextClient == CHOOSE c \in FreeClients : \A d \in FreeClients : c <= d

Init ==
    /\ users = <<>>
    /\ images = {}
    /\ nextImage = 1
    /\ inflight = {}
    /\ last = NoResponse
    /\ nreq = 0

\* A request answered in the step that received it.
Reply(op, req, status, error, token, user) ==
    /\ last' = Response(op, req, status, error, token, user)
    /\ nreq' = nreq + 1

\* A request answered after it was suspended as f.
Finish(f, status, error, token, user) ==
    /\ last' = Response(f.op, f.req, status, error, token, user)
    /\ inflight' = inflight \ {f}
    /\ nreq' = nreq

\* A request suspended at its next awaited call.
Suspend(op, req, pc, loc) ==
    /\ CanSuspend
    /\ inflight' = inflight \cup {[client |-> NextClient, op |-> op, req |-> req,
                                   pc |-> pc, loc |-> loc]}
    /\ nreq' = nreq + 1
    /\ last' = NoResponse

Move(f, pc, loc) ==
    /\ inflight' = (inflight \ {f}) \cup {[f EXCEPT !.pc = pc, !.loc = loc]}
    /\ nreq' = nreq
    /\ last' = NoResponse

\* ------------------------------------------------- the image store
\* utils/cloudinary: uploadImage stores the file and returns a fresh public
\* reference, or throws; deleteImage removes the referenced image, or throws.
ImageRef(n) == <<"cloudinary", n>>
UploadedImages == images \cup {ImageRef(nextImage)}
ImagesWithout(url) == images \ {url}

\* ------------------------------------------------------------ POST /signup
\* The requests tried: a well-formed request and its one-field variations.
SignupInputs ==
    [name : {<<>>, Ann}, email : {E1}, password : {P1},
     age : {Some(13)}, gender : {Male}, file : {FALSE}]
    \cup [name : {Ann}, email : {E1, E1U, BadEmail}, password : {<<>>, ShortPw, P1},
          age : {Some(13)}, gender : {Male}, file : {FALSE}]
    \cup [name : {Ann}, email : {E1}, password : {P1},
          age : {NULL, Some(0), Some(13), Some(200)}, gender : {Male}, file : {FALSE}]
    \cup [name : {Ann}, email : {E1}, password : {P1},
          age : {Some(13)}, gender : {<<>>, Male, Robot}, file : BOOLEAN]

SignupIsProfileComplete(age, gender) == TruthyNum(age) /\ TruthyStr(gender)

SignupRow(req, loc) ==
    [name |-> req.name,
     email |-> toLowerCase(req.email),
     password |-> Some(loc.hashedPassword),
     age |-> IF TruthyNum(req.age) THEN req.age ELSE NULL,
     gender |-> IF TruthyStr(req.gender) THEN Some(toLowerCase(req.gender)) ELSE NULL,
     profilePicture |-> loc.profilePictureUrl,
     provider |-> "credentials",
     googleId |-> NULL,
     isProfileComplete |-> SignupIsProfileComplete(req.age, req.gender)]

SignupValidation(req) ==
    IF ~TruthyStr(req.name) \/ ~TruthyStr(req.email) \/ ~TruthyStr(req.password)
    THEN "Name, email, and password are required"
    ELSE IF ~isValidEmail(req.email)
    THEN "Invalid email format"
    ELSE IF Len(req.password) < MinPasswordLength
    THEN "Password must be at least 6 characters long"
    ELSE IF TruthyNum(req.age) /\ ~isValidAge(Val(req.age))
    THEN "Age must be between 13 and 120"
    ELSE IF TruthyStr(req.gender) /\ ~isValidGender(req.gender)
    THEN "Invalid gender selection"
    ELSE ""

SignupExistingMut(req) == FindByEmail(req.email)
SignupExisting(req) == FindByEmail(toLowerCase(req.email))

Signup ==
    /\ CanReceive
    /\ \E req \in SignupInputs :
        IF SignupValidation(req) # ""
        THEN Reply("signup", req, 400, SignupValidation(req), NULL, NULL)
             /\ UNCHANGED <<users, images, nextImage, inflight>>
        ELSE IF SignupExisting(req) # NULL
        THEN Reply("signup", req, 400, "User with this email already exists", NULL, NULL)
             /\ UNCHANGED <<users, images, nextImage, inflight>>
        ELSE Suspend("signup", req, IF req.file THEN "upload" ELSE "create",
                     [hashedPassword |-> bcryptHash(req.password),
                      profilePictureUrl |-> NULL])
             /\ UNCHANGED <<users, images, nextImage>>

SignupUpload ==
    \E f \in inflight :
        /\ f.op = "signup" /\ f.pc = "upload"
        /\ \/ /\ images' = UploadedImages
              /\ nextImage' = nextImage + 1
              /\ Move(f, "create",
                      [f.loc EXCEPT !.profilePictureUrl = Some(ImageRef(nextImage))])
              /\ UNCHANGED users
           \/ /\ Finish(f, 400, "Failed to upload image", NULL, NULL)
              /\ UNCHANGED <<users, images, nextImage>>

SignupCreate ==
    \E f \in inflight :
        /\ f.op = "signup" /\ f.pc = "create"
        /\ IF EmailTaken(toLowerCase(f.req.email))
           THEN /\ Finish(f, 500, "Internal server error", NULL, NULL)
                /\ UNCHANGED <<users, images, nextImage>>
           ELSE /\ users' = Append(users, SignupRow(f.req, f.loc))
                /\ Finish(f, 201, "", Some(generateToken(Len(users) + 1)),
                          Some(PublicUser(Len(users) + 1, SignupRow(f.req, f.loc))))
                /\ UNCHANGED <<images, nextImage>>

\* ------------------------------------------------------------- POST /login
LoginInputs ==
    [email : {E1, E1U}, password : {<<>>, P1, P2}]
    \cup [email : {<<>>, BadEmail}, password : {P1}]

LoginUser(req) == FindByEmail(toLowerCase(req.email))

\* "" when the credentials are accepted, otherwise the 401 message.
LoginOutcomeMut(user, password) ==
    IF user.password # NULL /\ ~bcryptCompare(password, Val(user.password))
    THEN "Invalid credentials"
    ELSE ""
LoginOutcome(user, password) ==
    IF user.password = NULL
    THEN "Please login with Google"
    ELSE IF ~bcryptCompare(password, Val(user.password))
    THEN "Invalid credentials"
    ELSE ""

Login ==
    /\ CanReceive
    /\ UNCHANGED <<users, images, nextImage, inflight>>
    /\ \E req \in LoginInputs :
        IF ~TruthyStr(req.email) \/ ~TruthyStr(req.password)
        THEN Reply("login", req, 400, "Email and password are required", NULL, NULL)
        ELSE IF ~isValidEmail(req.email)
        THEN Reply("login", req, 400, "Invalid email format", NULL, NULL)
        ELSE IF LoginUser(req) = NULL
        THEN Reply("login", req, 401, "Invalid credentials", NULL, NULL)
        ELSE IF LoginOutcome(users[Val(LoginUser(req))], req.password) # ""
        THEN Reply("login", req, 401,
                   LoginOutcome(users[Val(LoginUser(req))], req.password), NULL, NULL)
        ELSE Reply("login", req, 200, "", Some(generateToken(Val(LoginUser(req)))),
                   Some(PublicUser(Val(LoginUser(req)), users[Val(LoginUser(req))])))

\* -------------------------------- GoogleStrategy verify + GET /google/callback
\* The verified profiles the identity provider hands over.
GoogleProfiles ==
    [email : {E1, E1U}, id : {G1}, displayName : {Bob}, photo : {Some(GPhoto)}]
    \cup [email : {NULL, E1}, id : {G1}, displayName : {Bob}, photo : {NULL}]

GoogleNewRow(profile) ==
    [name |-> profile.displayName,
     email |-> profile.email,
     password |-> NULL,
     age |-> NULL,
     gender |-> NULL,
     profilePicture |-> profile.photo,
     provider |-> "google",
     googleId |-> Some(profile.id),
     isProfileComplete |-> FALSE]

GoogleIsProfileComplete(user) == user.age # NULL /\ user.gender # NULL

\* updateData applied to the row as it is at the time of the update; user is
\* the row read by findUnique.
GoogleUpdatedRow(row, user, profile) ==
    [row EXCEPT
        !.googleId = Some(profile.id),
        !.provider = "google",
        !.profilePicture = IF user.profilePicture = NULL /\ profile.photo # NULL
                           THEN profile.photo ELSE @,
        !.name = IF user.name # profile.displayName THEN profile.displayName ELSE @,
        !.isProfileComplete = GoogleIsProfileComplete(user)]

GoogleVerify ==
    /\ CanReceive
    /\ UNCHANGED <<users, images, nextImage>>
    /\ \E profile \in GoogleProfiles :
        IF profile.email = NULL
        THEN Reply("google", profile, 500, "Something went wrong!", NULL, NULL)
             /\ UNCHANGED inflight
        ELSE IF FindByEmail(profile.email) = NULL
        THEN Suspend("google", profile, "create", [id |-> 0, user |-> NULL])
        ELSE Suspend("google", profile, "update",
                     [id |-> Val(FindByEmail(profile.email)),
                      user |-> Some(users[Val(FindByEmail(profile.email))])])

\* GET /google/callback: redirect with a token for the account of the verify
\* callback (its re-read of the row only feeds the redirect's payload).
GoogleCallback(f, id, row) ==
    Finish(f, 302, "", Some(generateToken(id)), Some(PublicUser(id, row)))

GoogleVerifyCreate ==
    \E f \in inflight :
        /\ f.op = "google" /\ f.pc = "create"
        /\ UNCHANGED <<images, nextImage>>
        /\ IF EmailTaken(f.req.email) \/ GoogleIdTaken(Some(f.req.id), {})
           THEN /\ Finish(f, 500, "Something went wrong!", NULL, NULL)
                /\ UNCHANGED users
           ELSE /\ users' = Append(users, GoogleNewRow(f.req))
                /\ GoogleCallback(f, Len(users) + 1, GoogleNewRow(f.req))

GoogleVerifyUpdate ==
    \E f \in inflight :
        /\ f.op = "google" /\ f.pc = "update"
        /\ UNCHANGED <<images, nextImage>>
        /\ IF GoogleIdTaken(Some(f.req.id), {f.loc.id})
           THEN /\ Finish(f, 500, "Something went wrong!", NULL, NULL)
                /\ UNCHANGED users
           ELSE /\ users' = [users EXCEPT ![f.loc.id] =
                                GoogleUpdatedRow(@, Val(f.loc.user), f.req)]
                /\ GoogleCallback(f, f.loc.id,
                                  GoogleUpdatedRow(users[f.loc.id], Val(f.loc.user), f.req))

\* ------------------------------------------------ POST /complete-profile
\* Authorization header: none, a token jwt.verify rejects, or a token issued
\* by generateToken (accounts are never deleted, so its userId is a row).
TokenInputs == {[kind |-> "none", userId |-> 0], [kind |-> "invalid", userId |-> 0]}
               \cup {[kind |-> "valid", userId |-> id] : id \in Ids}
ValidTokens == {t \in TokenInputs : t.kind = "valid"}

CompleteProfileInputs ==
    [token : TokenInputs, age : {Some(13)}, gender : {Male}, password : {<<>>}]
    \cup [token : ValidTokens, age : {NULL, Some(0), Some(12), Some(13), Some(200)},
          gender : {Male}, password : {<<>>}]
    \cup [token : ValidTokens, age : {Some(13)}, gender : {<<>>, Robot}, password : {<<>>}]
    \cup [token : ValidTokens, age : {Some(13)}, gender : {Male}, password : {ShortPw, P2}]

CompleteProfileValidation(req) ==
    IF ~TruthyNum(req.age) \/ ~TruthyStr(req.gender)
    THEN "Age and gender are required"
    ELSE IF ~isValidAge(Val(req.age))
    THEN "Age must be between 13 and 120"
    ELSE IF ~isValidGender(req.gender)
    THEN "Invalid gender selection"
    ELSE ""

CompleteProfileSetsPasswordMut(currentUser, req) == TruthyStr(req.password)
CompleteProfileSetsPassword(currentUser, req) ==
    currentUser.provider = "google" /\ TruthyStr(req.password)

CompleteProfileRow(row, req, setPassword) ==
    [row EXCEPT
        !.age = req.age,
        !.gender = Some(toLowerCase(req.gender)),
        !.isProfileComplete = TRUE,
        !.password = IF setPassword THEN Some(bcryptHash(req.password)) ELSE @]

CompleteProfile ==
    /\ CanReceive
    /\ UNCHANGED <<users, images, nextImage>>
    /\ \E req \in CompleteProfileInputs :
        IF req.token.kind = "none"
        THEN Reply("completeProfile", req, 401, "No token provided", NULL, NULL)
             /\ UNCHANGED inflight
        ELSE IF req.token.kind = "invalid"
        THEN Reply("completeProfile", req, 500, "Internal server error", NULL, NULL)
             /\ UNCHANGED inflight
        ELSE IF CompleteProfileValidation(req) # ""
        THEN Reply("completeProfile", req, 400, CompleteProfileValidation(req), NULL, NULL)
             /\ UNCHANGED inflight
        ELSE IF req.token.userId \notin Ids
        THEN Reply("completeProfile", req, 404, "User not found", NULL, NULL)
             /\ UNCHANGED inflight
        ELSE IF /\ CompleteProfileSetsPassword(users[req.token.userId], req)
                /\ Len(req.password) < MinPasswordLength
        THEN Reply("completeProfile", req, 400,
                   "Password must be at least 6 characters long", NULL, NULL)
             /\ UNCHANGED inflight
        ELSE Suspend("completeProfile", req, "update",
                     [setPassword |->
                        CompleteProfileSetsPassword(users[req.token.userId], req)])

CompleteProfileUpdate ==
    \E f \in inflight :
        /\ f.op = "completeProfile" /\ f.pc = "update"
        /\ UNCHANGED <<images, nextImage>>
        /\ users' = [users EXCEPT ![f.req.token.userId] =
                        CompleteProfileRow(@, f.req, f.loc.setPassword)]
        /\ Finish(f, 200, "", NULL,
                  Some(PublicUser(f.req.token.userId,
                       CompleteProfileRow(users[f.req.token.userId], f.req,
                                          f.loc.setPassword))))

\* ------------------------------------------------------------ PUT /profile
\* user.ts routes run behind authenticateToken: req.user.id is an account id.
UpdateProfileInputs ==
    [id : Ids, name : {<<>>, Ann}, age : {NULL}, gender : {<<>>}, file : {FALSE}]
    \cup [id : Ids, name : {Ann}, age : {NULL, Some(13), Some(200)},
          gender : {Male}, file : {FALSE}]
    \cup [id : Ids, name : {Ann}, age : {Some(13)}, gender : {<<>>, Robot}, file : {FALSE}]
    \cup [id : Ids, name : {Ann}, age : {NULL}, gender : {<<>>}, file : {TRUE}]

UpdateProfileValidation(req) ==
    IF ~TruthyStr(req.name)
    THEN "Name is required"
    ELSE IF TruthyNum(req.age) /\ ~isValidAge(Val(req.age))
    THEN "Age must be between 13 and 120"
    ELSE IF TruthyStr(req.gender) /\ ~isValidGender(req.gender)
    THEN "Invalid gender selection"
    ELSE ""

UpdateProfileIsComplete(age, gender) == TruthyNum(age) /\ TruthyStr(gender)

UpdateProfileRow(row, req, profilePictureUrl) ==
    [row EXCEPT
        !.name = req.name,
        !.age = IF TruthyNum(req.age) THEN req.age ELSE @,
        !.gender = IF TruthyStr(req.gender) THEN Some(toLowerCase(req.gender)) ELSE @,
        !.profilePicture = profilePictureUrl,
        !.isProfileComplete = UpdateProfileIsComplete(req.age, req.gender)]

UpdateProfile ==
    /\ CanReceive
    /\ UNCHANGED <<users, images, nextImage>>
    /\ \E req \in UpdateProfileInputs :
        IF UpdateProfileValidation(req) # ""
        THEN Reply("updateProfile", req, 400, UpdateProfileValidation(req), NULL, NULL)
             /\ UNCHANGED inflight
        ELSE Suspend("updateProfile", req,
                     IF ~req.file THEN "update"
                     ELSE IF users[req.id].profilePicture # NULL THEN "deleteOld"
                     ELSE "upload",
                     [current |-> users[req.id].profilePicture,
                      profilePictureUrl |-> users[req.id].profilePicture])

UpdateProfileDeleteOldMut ==
    \E f \in inflight :
        /\ f.op = "updateProfile" /\ f.pc = "deleteOld"
        /\ UNCHANGED <<users, nextImage>>
        /\ \/ images' = ImagesWithout(Val(f.loc.current)) /\ Move(f, "upload", f.loc)
           \/ images' = images /\ Finish(f, 500, "Internal server error", NULL, NULL)
\* deleteImage of the superseded picture; a failure is logged and swallowed.
UpdateProfileDeleteOld ==
    \E f \in inflight :
        /\ f.op = "updateProfile" /\ f.pc = "deleteOld"
        /\ UNCHANGED <<users, nextImage>>
        /\ Move(f, "upload", f.loc)
        /\ \/ images' = ImagesWithout(Val(f.loc.current))
           \/ images' = images

UpdateProfileUpload ==
    \E f \in inflight :
        /\ f.op = "updateProfile" /\ f.pc = "upload"
        /\ UNCHANGED users
        /\ \/ /\ images' = UploadedImages
              /\ nextImage' = nextImage + 1
              /\ Move(f, "update",
                      [f.loc EXCEPT !.profilePictureUrl = Some(ImageRef(nextImage))])
           \/ /\ Finish(f, 400, "Failed to upload image", NULL, NULL)
              /\ UNCHANGED <<images, nextImage>>

UpdateProfileWrite ==
    \E f \in inflight :
        /\ f.op = "updateProfile" /\ f.pc = "update"
        /\ UNCHANGED <<images, nextImage>>
        /\ users' = [users EXCEPT ![f.req.id] =
                        UpdateProfileRow(@, f.req, f.loc.profilePictureUrl)]
        /\ Finish(f, 200, "", NULL,
                  Some(PublicUser(f.req.id,
                       UpdateProfileRow(users[f.req.id], f.req, f.loc.profilePictureUrl))))

\* -------------------------------------------------- DELETE /profile/picture
DeletePictureRowMut(row) == row
DeletePictureRow(row) == [row EXCEPT !.profilePicture = NULL]

DeletePicture ==
    /\ CanReceive
    /\ UNCHANGED <<users, images, nextImage>>
    /\ \E id \in Ids :
        IF users[id].profilePicture = NULL
        THEN Reply("deletePicture", [id |-> id], 400, "No profile picture to delete",
                   NULL, NULL)
             /\ UNCHANGED inflight
        ELSE Suspend("deletePicture", [id |-> id], "deleteImage",
                     [current |-> users[id].profilePicture])

\* deleteImage; a failure is logged and swallowed.
DeletePictureImage ==
    \E f \in inflight :
        /\ f.op = "deletePicture" /\ f.pc = "deleteImage"
        /\ UNCHANGED <<users, nextImage>>
        /\ Move(f, "update", f.loc)
        /\ \/ images' = ImagesWithout(Val(f.loc.current))
           \/ images' = images

DeletePictureWrite ==
    \E f \in inflight :
        /\ f.op = "deletePicture" /\ f.pc = "update"
        /\ UNCHANGED <<images, nextImage>>
        /\ users' = [users EXCEPT ![f.req.id] = DeletePictureRow(@)]
        /\ Finish(f, 200, "", NULL,
                  Some(PublicUser(f.req.id, DeletePictureRow(users[f.req.id]))))

\* --------------------------------------------------- POST /change-password
ChangePasswordInputs ==
    [id : Ids, currentPassword : {<<>>, P1, P2}, newPassword : {P2}]
    \cup [id : Ids, currentPassword : {<<>>, P1}, newPassword : {<<>>, ShortPw}]

\* "set": a Google account without a password sets one, no current password
\* asked; "change": the current password was verified; otherwise the error.
ChangePasswordDecisionNoVerify(dbUser, req) ==
    IF dbUser.provider = "google" /\ dbUser.password = NULL
    THEN "set"
    ELSE IF ~TruthyStr(req.currentPassword)
    THEN "Current password is required"
    ELSE "change"
ChangePasswordDecisionMut(dbUser, req) ==
    IF dbUser.provider = "google" \/ dbUser.password = NULL
    THEN "set"
    ELSE IF ~TruthyStr(req.currentPassword)
    THEN "Current password is required"
    ELSE IF ~bcryptCompare(req.currentPassword, Val(dbUser.password))
    THEN "Current password is incorrect"
    ELSE "change"
ChangePasswordDecision(dbUser, req) ==
    IF dbUser.provider = "google" /\ dbUser.password = NULL
    THEN "set"
    ELSE IF ~TruthyStr(req.currentPassword)
    THEN "Current password is required"
    ELSE IF dbUser.password = NULL
    THEN "Password change not available for this user"
    ELSE IF ~bcryptCompare(req.currentPassword, Val(dbUser.password))
    THEN "Current password is incorrect"
    ELSE "change"

ChangePasswordRowMut(row, req) == [row EXCEPT !.password = NULL]
ChangePasswordRow(row, req) ==
    [row EXCEPT !.password = Some(bcryptHash(req.newPassword))]

ChangePassword ==
    /\ CanReceive
    /\ UNCHANGED <<users, images, nextImage>>
    /\ \E req \in ChangePasswordInputs :
        IF ~TruthyStr(req.newPassword)
        THEN Reply("changePassword", req, 400, "New password is required", NULL, NULL)
             /\ UNCHANGED inflight
        ELSE IF Len(req.newPassword) < MinPasswordLength
        THEN Reply("changePassword", req, 400,
                   "New password must be at least 6 characters long", NULL, NULL)
             /\ UNCHANGED inflight
        ELSE IF ChangePasswordDecision(users[req.id], req) \notin {"set", "change"}
        THEN Reply("changePassword", req, 400,
                   ChangePasswordDecision(users[req.id], req), NULL, NULL)
             /\ UNCHANGED inflight
        ELSE Suspend("changePassword", req, "update",
                     [decision |-> ChangePasswordDecision(users[req.id], req)])

ChangePasswordWrite ==
    \E f \in inflight :
        /\ f.op = "changePassword" /\ f.pc = "update"
        /\ UNCHANGED <<images, nextImage>>
        /\ users' = [users EXCEPT ![f.req.id] = ChangePasswordRow(@, f.req)]
        /\ Finish(f, 200, "", NULL, NULL)

\* --------------------------------------------------------------- GET /me
GetMe ==
    /\ CanReceive
    /\ UNCHANGED <<users, images, nextImage, inflight>>
    /\ \E token \in TokenInputs :
        IF token.kind = "none"
        THEN Reply("me", [token |-> token], 401, "No token provided", NULL, NULL)
        ELSE IF token.kind = "invalid"
        THEN Reply("me", [token |-> token], 401, "Invalid token", NULL, NULL)
        ELSE IF token.userId \notin Ids
        THEN Reply("me", [token |-> token], 401, "User not found", NULL, NULL)
        ELSE Reply("me", [token |-> token], 200, "", NULL,
                   Some(PublicUser(token.userId, users[token.userId])))

\* ------------------------------------------- the read routes of user.ts
\* GET /profile: its select also names password.
ProfileUser(id, u) ==
    [id |-> id, name |-> u.name, email |-> u.email, age |-> u.age,
     gender |-> u.gender, profilePicture |-> u.profilePicture,
     provider |-> u.provider, password |-> u.password]

GetProfile ==
    /\ CanReceive
    /\ UNCHANGED <<users, images, nextImage, inflight>>
    /\ \E id \in Ids :
        Reply("getProfile", [id |-> id], 200, "", NULL, Some(ProfileUser(id, users[id])))

\* GET /: every account, newest first.
AllUsers ==
    [i \in 1..Len(users) |-> PublicUser(Len(users) + 1 - i, users[Len(users) + 1 - i])]

GetUsers ==
    /\ CanReceive
    /\ UNCHANGED <<users, images, nextImage, inflight>>
    /\ Reply("getUsers", [id |-> 0], 200, "", NULL, Some(AllUsers))

\* GET /:userId with the id of an account or of none.
GetUserById ==
    /\ CanReceive
    /\ UNCHANGED <<users, images, nextImage, inflight>>
    /\ \E userId \in Ids \cup {0} :
        IF userId \notin Ids
        THEN Reply("getUserById", [userId |-> userId], 404, "User not found", NULL, NULL)
        ELSE Reply("getUserById", [userId |-> userId], 200, "", NULL,
                   Some(PublicUser(userId, users[userId])))

Next ==
    \/ Signup
    \/ SignupUpload
    \/ SignupCreate
    \/ Login
    \/ GoogleVerify
    \/ GoogleVerifyCreate
    \/ GoogleVerifyUpdate
    \/ CompleteProfile
    \/ CompleteProfileUpdate
    \/ UpdateProfile
    \/ UpdateProfileDeleteOld
    \/ UpdateProfileUpload
    \/ UpdateProfileWrite
    \/ DeletePicture
    \/ DeletePictureImage
    \/ DeletePictureWrite
    \/ ChangePassword
    \/ ChangePasswordWrite
    \/ GetMe
    \/ GetProfile
    \/ GetUsers
    \/ GetUserById

Spec == Init /\ [][Next]_vars

\* ======================================================================
\* Vocabulary of the properties
\* ======================================================================
EqualIgnoringCase(a, b) == toLowerCase(a) = toLowerCase(b)

\* This step receives the request req of kind op (and answers or suspends it).
ReceivedRequest(op, req) ==
    /\ nreq' = nreq + 1
    /\ \/ last'.op = op /\ last'.req = req
       \/ last'.op = "none" /\ \E f \in inflight' \ inflight : f.op = op /\ f.req = req

\* This step answers the request req of kind op with an error of the kind.
Rejected(op, req, kind) ==
    last'.op = op /\ last'.req = req /\ ErrorKind(last') = kind

\* This step suspends the request req of kind op: it passed every check made
\* before the first write.
Accepted(op, req) ==
    last'.op = "none" /\ \E f \in inflight' \ inflight : f.op = op /\ f.req = req

StoreUnchanged == UNCHANGED <<users, images, nextImage>>

\* ------------------------------------------------------------------ C1
\* C1 (as claimed): in every reachable state each account has
\* profileComplete = (age is set AND gender is set).
C1_ProfileCompleteDerived ==
    \A id \in Ids :
        users[id].isProfileComplete = (users[id].age # NULL /\ users[id].gender # NULL)

\* ------------------------------------------------------------------ C2
\* An account whose stored e-mail is in lower case, as the e-mail of every
\* account created by signup is.
StoredLowerCase(id) == users[id].email = toLowerCase(users[id].email)

SignupStoresLowerCase ==
    (last'.op = "signup" /\ Len(users') > Len(users))
        => users'[Len(users')].email = toLowerCase(last'.req.email)

\* C2 (as claimed): a signup whose e-mail equals, ignoring case, the e-mail of
\* an account created by signup fails with DuplicateEmail and changes nothing.
C2_DuplicateSignupAlwaysDuplicateEmail ==
    [][\A req \in SignupInputs :
        (/\ ReceivedRequest("signup", req)
         /\ \E id \in Ids : /\ users[id].provider = "credentials"
                            /\ EqualIgnoringCase(users[id].email, req.email))
        => Rejected("signup", req, "DuplicateEmail") /\ StoreUnchanged]_vars

\* C2 (amended): such a signup always fails with status 400 and changes
\* nothing; it fails with DuplicateEmail when its fields pass the validation
\* that precedes the lookup, and with ValidationError otherwise.  Every
\* account created by signup stores its e-mail in lower case.
C2_DuplicateSignupRejected ==
    [][/\ SignupStoresLowerCase
       /\ \A req \in SignupInputs :
            (/\ ReceivedRequest("signup", req)
             /\ \E id \in Ids : /\ StoredLowerCase(id)
                                /\ EqualIgnoringCase(users[id].email, req.email))
            => /\ StoreUnchanged
               /\ IF SignupValidation(req) = ""
                  THEN Rejected("signup", req, "DuplicateEmail")
                  ELSE Rejected("signup", req, "ValidationError")]_vars

\* A signup with A@b.c is refused as a duplicate of the account a@b.c.
C2_Witness ==
    /\ last.op = "signup"
    /\ ErrorKind(last) = "DuplicateEmail"
    /\ last.req.email = E1U
    /\ \E id \in Ids : users[id].email = E1 /\ users[id].provider = "credentials"

\* ------------------------------------------------------------------ C3
\* C3 (as claimed): no two distinct accounts have e-mails equal ignoring case.
C3_EmailUniqueIgnoringCase ==
    \A i \in Ids : \A j \in Ids :
        i # j => ~EqualIgnoringCase(users[i].email, users[j].email)

\* ------------------------------------------------------------------ C4
\* C4: a login with the e-mail of a local account and the secret whose hash
\* the account stores succeeds with a token whose userId is the account's id.
C4_LocalLoginSucceeds ==
    \A id \in Ids :
        (/\ last.op = "login"
         /\ users[id].provider = "credentials"
         /\ last.req.email = users[id].email
         /\ users[id].password = Some(bcryptHash(last.req.password)))
        => /\ last.status = 200
           /\ last.token = Some([userId |-> id])
           /\ Val(last.user).id = id

C4_Witness ==
    /\ last.op = "login"
    /\ last.status = 200
    /\ users[Val(last.token).userId].provider = "credentials"
    /\ users[Val(last.token).userId].password = Some(bcryptHash(last.req.password))

\* ------------------------------------------------------------------ C5
\* C5: a login whose e-mail designates an account without a password hash
\* fails with InvalidCredentials whatever the secret, issues no token and
\* leaves every account as it was; no login issues a token for an account
\* without a password hash.
C5_PasswordlessLoginFails ==
    [][\A req \in LoginInputs :
        ReceivedRequest("login", req)
        => /\ UNCHANGED users
           /\ (TruthyStr(req.password)
               /\ \E id \in Ids : /\ users[id].password = NULL
                                  /\ users[id].email = toLowerCase(req.email))
              => Rejected("login", req, "InvalidCredentials") /\ last'.token = NULL
           /\ last'.token # NULL => users[Val(last'.token).userId].password # NULL]_vars

C5_Witness ==
    /\ last.op = "login"
    /\ last.error = "Please login with Google"
    /\ \E id \in Ids : users[id].password = NULL /\ users[id].email = last.req.email

\* ------------------------------------------------------------------ C6
\* C6 (as claimed): the accounts never hold the same (e-mail, external id)
\* identity twice, and a federated login that ends while the account of its
\* identity exists resolves to that account.
C6_FederatedLoginResolves ==
    /\ \A i \in Ids : \A j \in Ids :
        (users[i].email = users[j].email /\ users[i].googleId = users[j].googleId
         /\ users[i].googleId # NULL) => i = j
    /\ \A id \in Ids :
        (/\ last.op = "google"
         /\ users[id].email = last.req.email
         /\ users[id].googleId = Some(last.req.id))
        => last.status = 302 /\ last.token = Some([userId |-> id])

\* ------------------------------------------------------------------ C7
\* C7: completeProfile with a valid token and an age outside [13,120] or a
\* gender outside the four values fails with ValidationError and changes no
\* account.
C7_CompleteProfileValidation ==
    [][\A req \in CompleteProfileInputs :
        (/\ ReceivedRequest("completeProfile", req)
         /\ req.token.kind = "valid"
         /\ \/ req.age # NULL /\ Val(req.age) \notin MinAge..MaxAge
            \/ toLowerCase(req.gender) \notin Genders)
        => Rejected("completeProfile", req, "ValidationError") /\ StoreUnchanged]_vars

C7_Witness ==
    /\ last.op = "completeProfile"
    /\ last.req.token.kind = "valid"
    /\ last.req.age = Some(200)
    /\ ErrorKind(last) = "ValidationError"

\* ------------------------------------------------------------------ C8
\* C8: changeSecret with a valid new secret and no current secret is accepted
\* when the account is federated without a password hash, and the write that
\* ends an accepted changeSecret succeeds and stores the hash of the new
\* secret; on an account with a password hash it fails with ValidationError
\* and changes nothing.
C8_ChangeSecretWithoutCurrent ==
    [][/\ \A req \in ChangePasswordInputs :
            (/\ ReceivedRequest("changePassword", req)
             /\ req.currentPassword = <<>>
             /\ Len(req.newPassword) >= MinPasswordLength)
            => IF users[req.id].password = NULL
               THEN users[req.id].provider = "google" => Accepted("changePassword", req)
               ELSE Rejected("changePassword", req, "ValidationError") /\ StoreUnchanged
       /\ (last'.op = "changePassword" /\ nreq' = nreq)
            => /\ last'.status = 200
               /\ users'[last'.req.id].password = Some(bcryptHash(last'.req.newPassword))]_vars

C8_Witness ==
    /\ last.op = "changePassword"
    /\ last.status = 200
    /\ last.req.currentPassword = <<>>
    /\ users[last.req.id].provider = "google"
    /\ users[last.req.id].password = Some(bcryptHash(last.req.newPassword))

\* ------------------------------------------------------------------ C9
\* C9: detachPicture on an account without a picture fails with
\* NothingToDelete and changes nothing; when a detachPicture ends
\* successfully, also after an updateProfile attached a picture, the
\* account's picture is unset.
C9_DetachPicture ==
    [][/\ \A id \in Ids :
            (ReceivedRequest("deletePicture", [id |-> id]) /\ users[id].profilePicture = NULL)
            => Rejected("deletePicture", [id |-> id], "NothingToDelete") /\ StoreUnchanged
       /\ (last'.op = "deletePicture" /\ last'.status = 200)
            => users'[last'.req.id].profilePicture = NULL]_vars

\* The account was created by a federated login without a photo, got its
\* name and an uploaded picture from updateProfile, and lost the picture to
\* detachPicture.
C9_Witness ==
    /\ last.op = "deletePicture"
    /\ last.status = 200
    /\ Len(users) = 1
    /\ users[1].password = NULL
    /\ users[1].name = Ann
    /\ users[1].profilePicture = NULL
    /\ nextImage = 2
    /\ nreq = 3

\* ------------------------------------------------------------------ C10
\* C10 (as claimed): a successful signup creates an account with
\* profileComplete = (age supplied AND gender supplied), provenance local and
\* the hash of the supplied secret.
C10_SignupCreatesAccount ==
    (last.op = "signup" /\ last.status = 201)
    => LET u == users[Val(last.token).userId] IN
        /\ u.isProfileComplete = (last.req.age # NULL /\ last.req.gender # <<>>)
        /\ u.provider = "credentials"
        /\ u.password = Some(bcryptHash(last.req.password))

\* ------------------------------------------------------------------ C11
\* C11: in every reachable state every account whose provenance is local has
\* a password hash.
C11_LocalHasCredential ==
    \A id \in Ids : users[id].provider = "credentials" => users[id].password # NULL

\* A local account after a changeSecret replaced its secret.
C11_Witness ==
    /\ last.op = "changePassword"
    /\ last.status = 200
    /\ users[last.req.id].provider = "credentials"
    /\ users[last.req.id].password = Some(bcryptHash(P2))

\* ------------------------------------------------------------------ C12
\* C12 (as claimed): no step changes the provenance of an existing account.
C12_ProvenanceFixed ==
    [][\A id \in Ids : users'[id].provider = users[id].provider]_vars

\* ------------------------------------------------------------------ C13
\* C13 (as claimed): a federated login whose e-mail matched an existing
\* account ends with the external id attached to that account and a token for
\* it, leaves the account's e-mail, age, gender and password hash as they
\* were, and leaves its picture as it was when the picture was set.
C13_FederatedLoginAttaches ==
    [][\A f \in inflight :
        (f.op = "google" /\ f.pc = "update" /\ f \notin inflight')
        => /\ users'[f.loc.id].googleId = Some(f.req.id)
           /\ last'.token = Some(generateToken(f.loc.id))
           /\ users'[f.loc.id].email = users[f.loc.id].email
           /\ users'[f.loc.id].age = users[f.loc.id].age
           /\ users'[f.loc.id].gender = users[f.loc.id].gender
           /\ users'[f.loc.id].password = users[f.loc.id].password
           /\ users[f.loc.id].profilePicture # NULL
              => users'[f.loc.id].profilePicture = users[f.loc.id].profilePicture]_vars

\* ------------------------------------------------------------------ C14
\* C14: in every reachable state no two distinct accounts have the same
\* external id.
C14_GoogleIdUnique ==
    \A i \in Ids : \A j \in Ids :
        (i # j /\ users[i].googleId # NULL) => users[i].googleId # users[j].googleId

\* A federated login presented the external id attached to one account with
\* the e-mail of another account, and ended.
C14_Witness ==
    /\ last.op = "google"
    /\ \E i \in Ids : \E j \in Ids :
        /\ i # j
        /\ users[i].googleId = Some(last.req.id)
        /\ users[j].email = last.req.email

\* ------------------------------------------------------------------ C15
\* C15 (as claimed): every federated login with a verified identity (e-mail,
\* external id, display name, optional picture) ends without an error, with a
\* token for an account that has the identity's e-mail.
C15_FederatedLoginSucceeds ==
    (last.op = "google" /\ last.req.email # NULL)
    => /\ last.status = 302
       /\ last.token # NULL
       /\ users[Val(last.token).userId].email = last.req.email

\* ------------------------------------------------------------------ C16
\* C16 (as claimed): when completeProfile has just succeeded with a secret of
\* at least 6 characters on an account whose provenance is federated, the
\* login that follows with the account's e-mail and that secret succeeds with
\* a token for the account.
C16_LoginAfterCompleteProfile ==
    [][\A req \in LoginInputs :
        (/\ last.op = "completeProfile"
         /\ last.status = 200
         /\ Len(last.req.password) >= MinPasswordLength
         /\ users[last.req.token.userId].provider = "google"
         /\ ReceivedRequest("login", req)
         /\ req.email = users[last.req.token.userId].email
         /\ req.password = last.req.password)
        => /\ last'.status = 200
           /\ last'.token = Some(generateToken(last.req.token.userId))]_vars

\* ------------------------------------------------------------------ C17
\* The account has a password hash and secret is not the secret it was made
\* from.
WrongSecret(id, secret) ==
    users[id].password # NULL /\ users[id].password # Some(bcryptHash(secret))

\* The latest response rejected a changeSecret on an account with a password
\* hash, with InvalidCredentials or ValidationError.
ChangeSecretJustRejected ==
    /\ last.op = "changePassword"
    /\ ErrorKind(last) \in {"InvalidCredentials", "ValidationError"}
    /\ users[last.req.id].password # NULL

\* C17: changeSecret on an account with a password hash fails with
\* ValidationError when the new secret has fewer than 6 characters and, the
\* new secret being long enough, with InvalidCredentials when the current
\* secret supplied is not the account's; either way nothing changes.  The
\* login that follows such a rejection with the account's e-mail (stored in
\* lower case, as login looks it up) succeeds with the secret of the stored
\* hash and fails with the rejected new secret when that is not the
\* account's secret.
C17_ChangeSecretRejected ==
    [][/\ \A req \in ChangePasswordInputs :
            (ReceivedRequest("changePassword", req) /\ users[req.id].password # NULL)
            => /\ Len(req.newPassword) < MinPasswordLength
                  => Rejected("changePassword", req, "ValidationError") /\ StoreUnchanged
               /\ (/\ Len(req.newPassword) >= MinPasswordLength
                   /\ req.currentPassword # <<>>
                   /\ WrongSecret(req.id, req.currentPassword))
                  => Rejected("changePassword", req, "InvalidCredentials") /\ StoreUnchanged
       /\ \A req \in LoginInputs :
            (/\ ChangeSecretJustRejected
             /\ ReceivedRequest("login", req)
             /\ StoredLowerCase(last.req.id)
             /\ req.email = users[last.req.id].email)
            => /\ users[last.req.id].password = Some(bcryptHash(req.password))
                  => /\ last'.status = 200
                     /\ last'.token = Some(generateToken(last.req.id))
               /\ (req.password = last.req.newPassword /\ WrongSecret(last.req.id, req.password))
                  => last'.status >= 400 /\ last'.token = NULL]_vars

\* A changeSecret with a wrong current secret and a valid new secret was
\* rejected on a local account, which keeps the hash of its secret.
C17_Witness ==
    /\ last.op = "changePassword"
    /\ last.error = "Current password is incorrect"
    /\ last.req.currentPassword = P2
    /\ last.req.newPassword = P2
    /\ users[last.req.id].provider = "credentials"
    /\ users[last.req.id].password = Some(bcryptHash(P1))

\* ------------------------------------------------------------------ C18
\* C18 (as claimed): when an updateProfile that carries a new picture fails
\* because the upload fails, with no other request in flight and the account
\* still holding the picture the request read, the image store still holds
\* that picture's image and no account has changed.
C18_FailedUploadChangesNothing ==
    [][\A f \in inflight :
        (/\ f.op = "updateProfile" /\ f.pc = "upload"
         /\ inflight = {f}
         /\ last'.op = "updateProfile"
         /\ ErrorKind(last') = "UpstreamFailure"
         /\ f.loc.current # NULL
         /\ Val(f.loc.current) = ImageRef(Val(f.loc.current)[2])
         /\ users[f.req.id].profilePicture = f.loc.current)
        => /\ users' = users
           /\ Val(f.loc.current) \in images']_vars

\* ------------------------------------------------------------------ C19
\* The request f takes this step and stays in flight, now at pc.
Continues(f, pc) ==
    /\ last' = NoResponse
    /\ inflight' = (inflight \ {f}) \cup {[f EXCEPT !.pc = pc]}

C20_LastWriteWins ==
    [][\A f \in inflight \ inflight' :
        (/\ f.op = "updateProfile" /\ f.pc = "update" /\ ~f.req.file
         /\ inflight = {f}
         /\ last.op \in {"updateProfile", "deletePicture"}
         /\ last.status = 200
         /\ last.req.id = f.req.id)
        => users'[f.req.id].profilePicture = users[f.req.id].profilePicture]_vars

\* ------------------------------------------------------------------ C21
\* C21 (as claimed): when a signup reaches its create while another signup
\* has already created the account of its e-mail, it is reported as
\* DuplicateEmail, has uploaded no image and writes no record; no e-mail is
\* ever stored twice.
C21_ConcurrentSignupDuplicate ==
    [][/\ \A i \in DOMAIN users' : \A j \in DOMAIN users' :
            users'[i].email = users'[j].email => i = j
       /\ \A f \in inflight \ inflight' :
            (/\ f.op = "signup" /\ f.pc = "create"
             /\ \E id \in Ids : /\ users[id].provider = "credentials"
                                /\ users[id].email = toLowerCase(f.req.email))
            => /\ Rejected("signup", f.req, "DuplicateEmail")
               /\ f.loc.profilePictureUrl = NULL
               /\ users' = users]_vars

\* ------------------------------------------------------------------ C22
BadTokens == {t \in TokenInputs : t.kind # "valid"}

\* C22 (as claimed): completeProfile and getAccount (/me) with a missing or
\* rejected token are answered at once with Unauthorized and change no
\* account.
C22_BadTokenUnauthorized ==
    [][/\ \A f \in inflight' : f.op = "completeProfile" => f.req.token \notin BadTokens
       /\ (/\ nreq' = nreq + 1
           /\ last'.op \in {"completeProfile", "me"}
           /\ last'.req.token \in BadTokens)
          => ErrorKind(last') = "Unauthorized" /\ users' = users]_vars

\* ------------------------------------------------------------------ C23
\* C23: in every reachable state each account's age is unset or an integer
\* from 13 to 120, and its gender is unset or one of the four lower-case
\* values.
C23_AgeGenderValid ==
    \A id \in Ids :
        /\ users[id].age # NULL => Val(users[id].age) \in MinAge..MaxAge
        /\ users[id].gender # NULL => Val(users[id].gender) \in Genders

\* A federated account, created without age and gender, that got both from
\* completeProfile, the gender given as "Male" and stored as "male".
C23_Witness ==
    /\ last.op = "completeProfile"
    /\ last.status = 200
    /\ last.req.gender = Male
    /\ users[last.req.token.userId].provider = "google"
    /\ users[last.req.token.userId].age = Some(13)
    /\ users[last.req.token.userId].gender = Some(toLowerCase(Male))

\* ------------------------------------------------------------------ C24
\* The latest response is a successful completeProfile that supplied a
\* secret, on an account whose provenance is local.
CompleteProfileWithSecretOnLocal ==
    /\ last.op = "completeProfile"
    /\ last.status = 200
    /\ last.req.password # <<>>
    /\ users[last.req.token.userId].provider = "credentials"

\* C24: the step that ends a completeProfile on an account whose provenance
\* is local leaves the account's password hash as it was, whatever secret the
\* request supplied.  The login that follows with the account's e-mail
\* succeeds with the secret of the stored hash and fails with the supplied
\* secret when that is not the account's secret.
C24_CompleteProfileKeepsLocalSecret ==
    [][/\ \A f \in inflight \ inflight' :
            (f.op = "completeProfile" /\ users[f.req.token.userId].provider = "credentials")
            => /\ last'.status = 200
               /\ users'[f.req.token.userId].password = users[f.req.token.userId].password
       /\ \A req \in LoginInputs :
            (/\ CompleteProfileWithSecretOnLocal
             /\ ReceivedRequest("login", req)
             /\ req.email = users[last.req.token.userId].email)
            => /\ users[last.req.token.userId].password = Some(bcryptHash(req.password))
                  => /\ last'.status = 200
                     /\ last'.token = Some(generateToken(last.req.token.userId))
               /\ (/\ req.password = last.req.password
                   /\ WrongSecret(last.req.token.userId, req.password))
                  => Rejected("login", req, "InvalidCredentials") /\ last'.token = NULL]_vars

\* completeProfile with the secret "hunter" succeeded on a local account,
\* which still holds the hash of the secret it signed up with.
C24_Witness ==
    /\ CompleteProfileWithSecretOnLocal
    /\ last.req.password = P2
    /\ users[last.req.token.userId].password = Some(bcryptHash(P1))

\* ------------------------------------------------------------------ C25
\* The account records a response carries.
ResponseAccounts(r) ==
    IF r.user = NULL THEN {}
    ELSE IF r.op = "getUsers" THEN {Val(r.user)[i] : i \in DOMAIN Val(r.user)}
    ELSE {Val(r.user)}

\* C25 (as claimed): no response of signup, login, federated login,
\* completeProfile, /me, GET /profile, updateProfile, detachPicture,
\* get-by-id or listAccounts carries an account record with a password field.
C25_NoPasswordInResponses ==
    last.op # "none" => \A u \in ResponseAccounts(last) : "password" \notin DOMAIN u

====
